---- MODULE Spec2Model ----
(***************************************************************************)
(* Blastfield: the turn/resource store, the unit (Player) health model,    *)
(* the keyboard-driven engine (playersRef[0] acts, deferred nextTurn) and  *)
(* the store-driven engine (firing flag, projectilesRef, crates, terrain). *)
(*                                                                         *)
(* Numbers: health is kept in fifths of a health point (HealthDen), so     *)
(* that the shield's 0.6 factor stays exact; wind is kept in halves;       *)
(* distances handed to the damage code are integer-valued, where the       *)
(* integer form of Math.round agrees with the floating-point one.          *)
(***************************************************************************)
EXTENDS Integers, Sequences, FiniteSets, TLC

(* ------------------------------ bounds --------------------------------- *)
MaxAmmo == 2
MaxShots == 2
MaxPairs == 2
MaxImpacts == 3

(* ------------------------- program constants --------------------------- *)
ShieldNum == 3
HealthDen == 5
DefaultHealth == 100
FireCooldownMs == 800
TickMs == 400

(* ------------------------------ helpers -------------------------------- *)
Max(a, b) == IF a >= b THEN a ELSE b
Min(a, b) == IF a <= b THEN a ELSE b
EmptyMap == [x \in {} |-> 0]
Lookup(m, k, dflt) == IF k \in DOMAIN m THEN m[k] ELSE dflt

(* ------------------------------ catalogs ------------------------------- *)
Specials == {"Energy Shield", "Ricochet Shot", "None"}
WindValues == {-2, 1}
CooldownInputs == {200, 500, 800}
StoreWeapons == {"rocket", "nuke"}

UnitCatalog ==
  { [id |-> "tank",   special |-> "Energy Shield", health |-> DefaultHealth],
    [id |-> "drone",  special |-> "Ricochet Shot", health |-> DefaultHealth],
    [id |-> "walker", special |-> "None",          health |-> DefaultHealth] }

VARIABLES
  setupCompleted, unitsPerTeam,
  units, angle, power, currentTurn, wind, ammo, cooldowns, gameOver, selectedWeapon, firing,
  playersRef, health,
  impacts,
  mounted, shots,
  projectiles, crates, heights, fired,
  lastCall, cdTrace, lastBlast, lastTeleport, lastContact

storeVars ==
  <<setupCompleted, unitsPerTeam,
    units, angle, power, currentTurn, wind, ammo, cooldowns, gameOver, selectedWeapon, firing>>
playerVars == <<playersRef, health>>
arcadeVars == <<mounted, shots>>
engineVars == <<projectiles, crates, heights, fired>>
histVars == <<lastCall, cdTrace, lastBlast, lastTeleport, lastContact>>
boundVars == <<impacts>>
vars == <<storeVars, playerVars, boundVars, arcadeVars, engineVars, histVars>>

Roster == 0 .. (Len(units) - 1)

(* ---------------------------- store: aim ------------------------------- *)
(* The renderer's size, and the teleport geometry. *)
WorldWidth == 480
WorldHeight == 600
ArcadeImpactXs == {20, 240}
TerrainThickness == 20
ProjectileRadius == 6
ArcadeBox == 40
PlayerHeight == 30
TeleportMargin == 80

InitAngle == 45
InitPower == 50
AngleMin == 0
AngleMax == 90
PowerMin == 10
PowerMax == 100
AngleStep == 2
PowerStep == 5

(* A setter that stores its argument as given.                             *)
unclamped(lo, hi, v) == v

(* Math.max(lo, Math.min(hi, v))                                           *)
clamped(lo, hi, v) == Max(lo, Min(hi, v))

(* ------------------- store: ammo and cooldown bookkeeping -------------- *)
ConsumeOk(am, w) == (w \notin DOMAIN am) \/ am[w] > 0

(* A consume that decrements a tracked counter even at 0.                  *)
ConsumeAlways(am, w) ==
  IF w \in DOMAIN am THEN [am EXCEPT ![w] = @ - 1] ELSE am

ConsumeMap(am, w) ==
  IF w \in DOMAIN am /\ am[w] > 0 THEN [am EXCEPT ![w] = @ - 1] ELSE am

Remaining(cd, w) == Lookup(cd, w, 0)

(* A setCooldown that overwrites the remaining time.                       *)
SetCooldownOverwrite(cd, w, ms) ==
  [x \in DOMAIN cd \cup {w} |-> IF x = w THEN ms ELSE cd[x]]

SetCooldownMap(cd, w, ms) ==
  [x \in DOMAIN cd \cup {w} |->
     IF x = w THEN Max(Remaining(cd, w), ms) ELSE cd[x]]

(* A tick that keeps the entries that have just reached zero.              *)
TickMapKeepsZero(cd, ms) ==
  [x \in {y \in DOMAIN cd : cd[y] - ms >= 0} |-> cd[x] - ms]

TickMap(cd, ms) ==
  [x \in {y \in DOMAIN cd : cd[y] - ms > 0} |-> cd[x] - ms]

(* nextTurn of the store: the index after the current one, modulo the     *)
(* roster length; the wind is redrawn.                                     *)
NextIndex(cur, n) == (cur + 1) % n

(* ------------------------------- units --------------------------------- *)
Eliminated(i) == health[i] <= 0
isAlive(i) == health[i] > 0
Team(i) == i % 2
LivingTeams == {Team(i) : i \in {j \in Roster : ~Eliminated(j)}}

(* A takeDamage that ignores shieldActive.                                 *)
TakeDamageIgnoresShield(h, shield, amount) == h - amount * HealthDen

(* Player.takeDamage of the shielded Player class: the new health.         *)
TakeDamageShield(h, shield, amount) ==
  h - (IF shield THEN Max(0, amount * ShieldNum) ELSE amount * HealthDen)

(* Player.takeDamage of the Player class with a health bar: no shield.     *)
TakeDamage(h, amount) == h - amount * HealthDen

(* ===================== the store driven call by call =================== *)
NoContact == [owner |-> -1, kind |-> "", removed |-> FALSE, timeouts |-> 0, hurt |-> FALSE]

NoTeleport ==
  [unit |-> -1, actor |-> -1, x |-> 0, y |-> 0, ground |-> 0, half |-> 0, width |-> 0]

NoBlast ==
  [path |-> "none", radius |-> 0, damage |-> 0, d |-> EmptyMap, before |-> EmptyMap]

NoCall == [op |-> "none", w |-> "", ms |-> 0, ok |-> TRUE,
           ammoBefore |-> EmptyMap, cdBefore |-> EmptyMap]

AmmoInits == {EmptyMap} \cup {[w \in {"rocket"} |-> c] : c \in 0 .. MaxAmmo}

(* The engines are rendered once setupCompleted is true; none of them     *)
(* reads unitsPerTeam.                                                     *)
SetupDone == setupCompleted = TRUE /\ unitsPerTeam = 1

InitIdleEngines ==
  /\ mounted = [weapon |-> "rocket", cooldowns |-> EmptyMap, gameOver |-> FALSE, wind |-> 0]
  /\ shots = << >>
  /\ impacts = 0
  /\ projectiles = EmptyMap
  /\ crates = << >>
  /\ heights = << >>
  /\ fired = 0

InitStore ==
  /\ units \in {<<a, b>> : a \in UnitCatalog, b \in {u \in UnitCatalog : u.id = "walker"}}
  /\ currentTurn = 0
  /\ angle = InitAngle
  /\ power = InitPower
  /\ wind \in WindValues
  /\ \E am \in AmmoInits : ammo = [i \in 0 .. 1 |-> am]
  /\ cooldowns = EmptyMap
  /\ gameOver = FALSE
  /\ selectedWeapon = "rocket"
  /\ firing = FALSE
  /\ playersRef = <<0, 1>>
  /\ health = [i \in 0 .. 1 |-> units[i + 1].health * HealthDen]
  /\ InitIdleEngines
  /\ lastCall = NoCall
  /\ cdTrace = [w \in StoreWeapons |-> 0]
  /\ lastBlast = NoBlast
  /\ lastTeleport = NoTeleport
  /\ lastContact = NoContact
  /\ SetupDone

StoreConsumeAmmo(w) ==
  /\ lastCall' = [op |-> "consumeAmmo", w |-> w, ms |-> 0,
                  ok |-> ConsumeOk(ammo[currentTurn], w),
                  ammoBefore |-> ammo[currentTurn], cdBefore |-> cooldowns]
  /\ ammo' = [ammo EXCEPT ![currentTurn] = ConsumeMap(@, w)]
  /\ UNCHANGED <<setupCompleted, unitsPerTeam, units, angle, power, currentTurn, wind, cooldowns, gameOver, selectedWeapon, firing>>
  /\ UNCHANGED <<playerVars, boundVars, arcadeVars, engineVars, cdTrace, lastBlast, lastTeleport, lastContact>>

StoreSetCooldown(w, ms) ==
  /\ lastCall' = [op |-> "setCooldown", w |-> w, ms |-> ms, ok |-> TRUE,
                  ammoBefore |-> ammo[currentTurn], cdBefore |-> cooldowns]
  /\ cooldowns' = SetCooldownMap(cooldowns, w, ms)
  /\ cdTrace' = [cdTrace EXCEPT ![w] = Max(@, ms)]
  /\ UNCHANGED <<lastBlast, lastTeleport, lastContact>>
  /\ UNCHANGED <<setupCompleted, unitsPerTeam, units, angle, power, currentTurn, wind, ammo, gameOver, selectedWeapon, firing>>
  /\ UNCHANGED <<playerVars, boundVars, arcadeVars, engineVars>>

StoreTickCooldowns ==
  /\ lastCall' = [op |-> "tickCooldowns", w |-> "", ms |-> TickMs, ok |-> TRUE,
                  ammoBefore |-> ammo[currentTurn], cdBefore |-> cooldowns]
  /\ cooldowns' = TickMap(cooldowns, TickMs)
  /\ cdTrace' = [w \in StoreWeapons |-> Remaining(TickMap(cooldowns, TickMs), w)]
  /\ UNCHANGED <<lastBlast, lastTeleport, lastContact>>
  /\ UNCHANGED <<setupCompleted, unitsPerTeam, units, angle, power, currentTurn, wind, ammo, gameOver, selectedWeapon, firing>>
  /\ UNCHANGED <<playerVars, boundVars, arcadeVars, engineVars>>

StoreNextTurn ==
  /\ currentTurn' = NextIndex(currentTurn, Len(units))
  /\ wind' \in WindValues
  /\ lastCall' = [op |-> "nextTurn", w |-> "", ms |-> 0, ok |-> TRUE,
                  ammoBefore |-> ammo[currentTurn], cdBefore |-> cooldowns]
  /\ UNCHANGED <<setupCompleted, unitsPerTeam, units, angle, power, ammo, cooldowns, gameOver, selectedWeapon, firing>>
  /\ UNCHANGED <<playerVars, boundVars, arcadeVars, engineVars, cdTrace, lastBlast, lastTeleport, lastContact>>

NextStore ==
  \/ \E w \in StoreWeapons : StoreConsumeAmmo(w)
  \/ \E w \in StoreWeapons, ms \in CooldownInputs : StoreSetCooldown(w, ms)
  \/ StoreTickCooldowns
  \/ StoreNextTurn

SpecStore == InitStore /\ [][NextStore]_vars

(* The ticker calls tickCooldowns on every frame.                          *)
FairStore == WF_vars(StoreTickCooldowns)
SpecStoreLive == InitStore /\ [][NextStore]_vars /\ FairStore

(* =============== the keyboard-driven engine (playersRef[0]) ============ *)
ArcadeKinds ==
  {"rocket", "nuke", "meteor_shower", "laser_beam", "black_hole", "mirv", "teleport"}
Dists == {0, 41}
BodyLabels == {"terrain", "player"}
MaxPulls == 2
MeteorCount == 5
MirvChildren == 5
LineDamage == 20
LineTolerance == 20

(* weaponDamageSpec: the kinds with a blast radius.                        *)
weaponDamageSpec ==
  [k \in {"rocket", "plasma_ball", "cluster_child", "nuke", "meteor", "mirv_child"} |->
     CASE k = "rocket"        -> [radius |-> 40,  damage |-> 30]
       [] k = "plasma_ball"   -> [radius |-> 25,  damage |-> 20]
       [] k = "cluster_child" -> [radius |-> 20,  damage |-> 15]
       [] k = "nuke"          -> [radius |-> 100, damage |-> 100]
       [] k = "meteor"        -> [radius |-> 20,  damage |-> 15]
       [] k = "mirv_child"    -> [radius |-> 25,  damage |-> 18]]

DefaultImpact == [radius |-> 20, damage |-> 10]

(* Math.round(damage * (0.5 + 0.5 * (1 - dist / radius))), dist <= radius. *)
AreaDealt(damage, radius, dist) ==
  (damage * (2 * radius - dist) + radius) \div (2 * radius)

ShieldOf(i) == units[i + 1].special = "Energy Shield"
RicochetOf(i) == units[i + 1].special = "Ricochet Shot"

(* applyAreaDamage: every player of the list within the radius takes the   *)
(* falloff damage; the lethally hit ones are filtered out of the list.     *)
applyAreaDamage(st, spec, d) ==
  LET hit(i) == d[i] <= spec.radius
      hp == [i \in DOMAIN st.hp |->
               IF hit(i) /\ \E k \in DOMAIN st.ref : st.ref[k] = i
               THEN TakeDamageShield(st.hp[i], ShieldOf(i),
                                     AreaDealt(spec.damage, spec.radius, d[i]))
               ELSE st.hp[i]]
      keep(i) == ~(hit(i) /\ hp[i] <= 0)
  IN [st EXCEPT !.hp = hp, !.ref = SelectSeq(st.ref, keep)]

(* applyLineDamage: flat damage to every listed player closer than 20 to   *)
(* the line.                                                               *)
applyLineDamage(st, damage, d) ==
  LET hit(i) == d[i] < LineTolerance
      hp == [i \in DOMAIN st.hp |->
               IF hit(i) /\ \E k \in DOMAIN st.ref : st.ref[k] = i
               THEN TakeDamageShield(st.hp[i], ShieldOf(i), damage)
               ELSE st.hp[i]]
      keep(i) == ~(hit(i) /\ hp[i] <= 0)
  IN [st EXCEPT !.hp = hp, !.ref = SelectSeq(st.ref, keep)]

(* handleWeaponImpact: every branch answers advanceTurn: true.             *)
handleWeaponImpact(st, kind, d) ==
  IF kind \in DOMAIN weaponDamageSpec
  THEN applyAreaDamage(st, weaponDamageSpec[kind], d)
  ELSE IF kind = "teleport"
       THEN [st EXCEPT !.moved = IF Len(st.ref) > 0 THEN st.ref[1] ELSE @]
  ELSE applyAreaDamage(st, DefaultImpact, d)

(* One pair of a collisionStart event, for the projectile of label kind.   *)
onCollisionPair(st, kind, other, d) ==
  IF Len(st.ref) > 0 /\ RicochetOf(st.ref[1]) /\ other = "terrain" /\ kind = "rocket"
  THEN st
  ELSE [handleWeaponImpact(st, kind, d) EXCEPT !.removed = TRUE, !.timeouts = @ + 1]

RECURSIVE onCollisionPairs(_, _, _, _)
onCollisionPairs(st, kind, others, d) ==
  IF others = << >> THEN st
  ELSE onCollisionPairs(onCollisionPair(st, kind, Head(others), d), kind, Tail(others), d)

PrimaryLabel(kind) ==
  CASE kind = "meteor_shower" -> "meteor"
    [] kind = "mirv" -> "mirv_shell"
    [] OTHER -> kind

NewShot(kind, owner) ==
  [kind |-> kind,
   owner |-> owner,
   primary |-> CASE kind = "meteor_shower" -> MeteorCount
                 [] kind \in {"laser_beam", "black_hole"} -> 0
                 [] OTHER -> 1,
   child |-> 0,
   pendingNext |-> IF kind = "laser_beam" THEN 1 ELSE 0,
   advances |-> 0,
   split |-> (kind = "mirv"),
   well |-> (kind = "black_hole"),
   interval |-> (kind = "black_hole"),
   wellTimeout |-> (kind = "black_hole"),
   removals |-> 0,
   pulls |-> 0,
   pulled |-> {}]

InitArcade ==
  /\ units \in {<<a, b>> : a, b \in {u \in UnitCatalog : u.special # "None"}}
              \ {<<a, a>> : a \in UnitCatalog}
  /\ currentTurn = 0
  /\ angle = InitAngle
  /\ power = InitPower
  /\ wind = 1
  /\ selectedWeapon \in ArcadeKinds
  /\ \E am \in {EmptyMap, [w \in {selectedWeapon} |-> 1]} : ammo = [i \in 0 .. 1 |-> am]
  /\ cooldowns = EmptyMap
  /\ gameOver = FALSE
  /\ firing = FALSE
  /\ playersRef = <<0, 1>>
  /\ health = [i \in 0 .. 1 |-> units[i + 1].health * HealthDen]
  /\ mounted = [weapon |-> selectedWeapon, cooldowns |-> cooldowns,
                gameOver |-> gameOver, wind |-> wind]
  /\ shots = << >>
  /\ impacts = 0
  /\ projectiles = EmptyMap
  /\ crates = << >>
  /\ heights = << >>
  /\ fired = 0
  /\ lastCall = NoCall
  /\ cdTrace = [w \in StoreWeapons |-> 0]
  /\ lastBlast = NoBlast
  /\ lastTeleport = NoTeleport
  /\ lastContact = NoContact
  /\ SetupDone

(* const currentPlayer = playersRef.current[0] of handleKeyDown: the unit *)
(* whose body the arrow keys move and from whose position Space fires.     *)
currentPlayer == Head(playersRef)

(* handleKeyDown, the space key: the cooldown map and the weapon are those *)
(* of the render the handler was created in; consumeAmmo and setCooldown   *)
(* are the store's.                                                        *)
KeySpace(d) ==
  /\ Len(playersRef) > 0
  /\ ~mounted.gameOver
  /\ Len(shots) < MaxShots
  /\ LET w == mounted.weapon IN
     IF Remaining(mounted.cooldowns, w) # 0 \/ ~ConsumeOk(ammo[currentTurn], w)
     THEN UNCHANGED vars
     ELSE LET st == [ref |-> playersRef, hp |-> health, removed |-> FALSE, timeouts |-> 0, moved |-> -1]
              after == IF w = "laser_beam" THEN applyLineDamage(st, LineDamage, d) ELSE st
          IN /\ ammo' = [ammo EXCEPT ![currentTurn] = ConsumeMap(@, w)]
             /\ shots' = Append(shots, NewShot(w, currentTurn))
             /\ playersRef' = after.ref
             /\ health' = after.hp
             /\ cooldowns' = SetCooldownMap(cooldowns, w, FireCooldownMs)
             /\ UNCHANGED <<setupCompleted, unitsPerTeam, units, angle, power, currentTurn, wind, gameOver, selectedWeapon, firing>>
             /\ UNCHANGED <<mounted, impacts, engineVars, histVars>>

(* The positions a projectile body can have when it touches the flat       *)
(* terrain strip: its centre sits ProjectileRadius above the strip's top.  *)
ArcadeImpacts ==
  {[x |-> ax, y |-> WorldHeight - TerrainThickness - ProjectileRadius] :
     ax \in ArcadeImpactXs}

(* The primary projectiles resolved by area damage.                        *)
RicochetKinds == {"rocket", "nuke"}

(* onCollision: one collisionStart event whose pairs all hold the same     *)
(* projectile, touching the bodies labelled in others.  A teleport impact  *)
(* records the Matter.Body.setPosition of handleWeaponImpact; the contact  *)
(* of an area-damage projectile with the terrain alone records what the    *)
(* handler did with it.                                                    *)
OnCollision(s, isChild, others, d) ==
  /\ IF isChild THEN shots[s].child > 0 ELSE shots[s].primary > 0
  /\ impacts + Len(others) <= MaxImpacts
  /\ impacts' = impacts + Len(others)
  /\ LET kind == IF isChild THEN "mirv_child" ELSE PrimaryLabel(shots[s].kind)
         st == [ref |-> playersRef, hp |-> health, removed |-> FALSE, timeouts |-> 0, moved |-> -1]
         after == onCollisionPairs(st, kind, others, d)
         gone == IF after.removed THEN 1 ELSE 0
     IN /\ playersRef' = after.ref
        /\ health' = after.hp
        /\ shots' = [shots EXCEPT ![s] =
                       [@ EXCEPT !.primary = IF isChild THEN @ ELSE @ - gone,
                                 !.child = IF isChild THEN @ - gone ELSE @,
                                 !.pendingNext = @ + after.timeouts]]
        /\ IF after.moved = -1
           THEN UNCHANGED lastTeleport
           ELSE \E at \in ArcadeImpacts :
                  lastTeleport' =
                    [unit |-> after.moved, actor |-> currentTurn,
                     x |-> at.x, y |-> at.y, ground |-> TerrainThickness,
                     half |-> ArcadeBox \div 2, width |-> WorldWidth]
        /\ lastContact' =
             IF others = <<"terrain">> /\ kind \in RicochetKinds
             THEN [owner |-> shots[s].owner, kind |-> kind,
                   removed |-> after.removed, timeouts |-> after.timeouts,
                   hurt |-> after.hp # health]
             ELSE lastContact
  /\ UNCHANGED <<storeVars, mounted, engineVars, lastCall, cdTrace, lastBlast>>

(* setTimeout(() => nextTurn(), 300)                                       *)
TimerNextTurn(s) ==
  /\ shots[s].pendingNext > 0
  /\ currentTurn' = NextIndex(currentTurn, Len(units))
  /\ wind' \in WindValues
  /\ shots' = [shots EXCEPT ![s] = [@ EXCEPT !.pendingNext = @ - 1, !.advances = @ + 1]]
  /\ UNCHANGED <<setupCompleted, unitsPerTeam, units, angle, power, ammo, cooldowns, gameOver, selectedWeapon, firing>>
  /\ UNCHANGED <<playerVars, mounted, impacts, engineVars, histVars>>

(* The mirv timer: five children at the shell's position, whether or not   *)
(* the shell still flies.                                                  *)
TimerMirvSplit(s) ==
  /\ shots[s].split
  /\ shots' = [shots EXCEPT ![s] = [@ EXCEPT !.split = FALSE, !.child = @ + MirvChildren]]
  /\ UNCHANGED <<storeVars, playerVars, mounted, impacts, engineVars, histVars>>

(* engine.world.bodies: the terrain strip, the body of every player not   *)
(* yet destroyed, every well still in the world, every projectile in       *)
(* flight.                                                                 *)
worldBodies(hp, shs) ==
  {<<"terrain", 0>>}
    \cup {<<"player", i>> : i \in {j \in DOMAIN hp : hp[j] > 0}}
    \cup {<<"black_hole", t>> : t \in {u \in DOMAIN shs : shs[u].well}}
    \cup {<<"projectile", t>> :
            t \in {u \in DOMAIN shs : shs[u].primary + shs[u].child > 0}}

isStatic(b) == b[1] \in {"terrain", "black_hole"}

(* The setInterval callback of well s: the bodies it applies a force to.   *)
wellForce(hp, shs, s) ==
  {b \in worldBodies(hp, shs) : ~(b = <<"black_hole", s>> \/ isStatic(b))}

(* The setTimeout callback of a well, on its shot record, without the      *)
(* clearInterval.                                                          *)
wellEndKeepsInterval(shot) ==
  [shot EXCEPT !.wellTimeout = FALSE, !.well = FALSE,
               !.removals = @ + 1, !.advances = @ + 1]

(* The setTimeout callback of a well, on its shot record: clearInterval,   *)
(* World.remove, nextTurn.                                                 *)
wellEnd(shot) ==
  [shot EXCEPT !.wellTimeout = FALSE, !.interval = FALSE, !.well = FALSE,
               !.removals = @ + 1, !.advances = @ + 1]

(* The black hole's interval, every 16 ms while it is not cleared.         *)
TimerWellTick(s) ==
  /\ shots[s].interval
  /\ shots[s].pulls < MaxPulls
  /\ shots' = [shots EXCEPT ![s] =
                 [@ EXCEPT !.pulls = @ + 1, !.pulled = wellForce(health, shots, s)]]
  /\ UNCHANGED <<storeVars, playerVars, mounted, impacts, engineVars, histVars>>

(* The black hole's timeout: the well is removed and the turn advances.    *)
TimerWellEnd(s) ==
  /\ shots[s].wellTimeout
  /\ currentTurn' = NextIndex(currentTurn, Len(units))
  /\ wind' \in WindValues
  /\ shots' = [shots EXCEPT ![s] = wellEnd(@)]
  /\ UNCHANGED <<setupCompleted, unitsPerTeam, units, angle, power, ammo, cooldowns, gameOver, selectedWeapon, firing>>
  /\ UNCHANGED <<playerVars, mounted, impacts, engineVars, histVars>>

(* The lateral force a run of the ticker applies to a body, in units of    *)
(* 0.0001 / 2: wind * 0.0001 with wind as the effect's closure holds it,   *)
(* the value of the render in which the effect was mounted.                *)
tickerWindForce == mounted.wind

(* The ticker: cooldowns tick; the match ends when the player list is      *)
(* empty (gameOver read as it was at mount).                               *)
TickerArcade ==
  /\ cooldowns' = TickMap(cooldowns, TickMs)
  /\ gameOver' = IF ~mounted.gameOver /\ Len(playersRef) = 0 THEN TRUE ELSE gameOver
  /\ UNCHANGED <<setupCompleted, unitsPerTeam, units, angle, power, currentTurn, wind, ammo, selectedWeapon, firing>>
  /\ UNCHANGED <<playerVars, boundVars, arcadeVars, engineVars, histVars>>

PairLists == UNION {[1 .. n -> BodyLabels] : n \in 1 .. MaxPairs}

NextArcade ==
  \/ \E d \in [Roster -> Dists] : KeySpace(d)
  \/ \E s \in DOMAIN shots, c \in BOOLEAN, o \in PairLists, d \in [Roster -> Dists] :
       OnCollision(s, c, o, d)
  \/ \E s \in DOMAIN shots : TimerNextTurn(s)
  \/ \E s \in DOMAIN shots : TimerMirvSplit(s)
  \/ \E s \in DOMAIN shots : TimerWellTick(s)
  \/ \E s \in DOMAIN shots : TimerWellEnd(s)
  \/ TickerArcade

SpecArcade == InitArcade /\ [][NextArcade]_vars

(* The timers and the ticker are scheduled by the browser and do run; a    *)
(* collision happens only if the flight meets a body.                      *)
FairArcade ==
  /\ WF_vars(\E s \in DOMAIN shots : TimerNextTurn(s))
  /\ WF_vars(\E s \in DOMAIN shots : TimerMirvSplit(s))
  /\ WF_vars(\E s \in DOMAIN shots : TimerWellEnd(s))
  /\ WF_vars(TickerArcade)

SpecArcadeLive == InitArcade /\ [][NextArcade]_vars /\ FairArcade

(* ================= the store-driven engine (firing flag) =============== *)
NumSegments == 3
SegWidth == 40
InitHeight == 60
MaxCrates == 1
MaxDrops == 1
MaxBlasts == 2
CrateHealth == 25
CrateAmmo == 1
BeamTolerance == 20
ClusterCount == 4
MultipleCount == 5
DefaultRadius == 40
DefaultDamage == 20
ImpactXs == {20}
EngineDists == {0, 101}
CrateWeapons == {"nuke"}

(* The weapon catalog, in its file order: the first entry is the fallback. *)
weapons ==
  << [id |-> "rocket",       effect |-> "blast",    damage |-> 30,  radius |-> 40],
     [id |-> "nuke",         effect |-> "blast",    damage |-> 100, radius |-> 100],
     [id |-> "cluster_bomb", effect |-> "cluster",  damage |-> 30,  radius |-> 40],
     [id |-> "mirv",         effect |-> "multiple", damage |-> 30,  radius |-> 40],
     [id |-> "teleport",     effect |-> "teleport", damage |-> 0,   radius |-> 0],
     [id |-> "jetpack",      effect |-> "fly",      damage |-> 0,   radius |-> 0],
     [id |-> "laser_beam",   effect |-> "beam",     damage |-> 20,  radius |-> 0] >>

WeaponIds == {weapons[i].id : i \in DOMAIN weapons}
SelectableIds == {"nuke", "cluster_bomb", "laser_beam", "unknown"}
Known(id) == \E i \in DOMAIN weapons : weapons[i].id = id
Find(id) == weapons[CHOOSE i \in DOMAIN weapons : weapons[i].id = id]

(* A lookup without the || weapons[0]: the unknown id is carried on.       *)
SelectedDefinitionUndefaulted(id) ==
  IF Known(id) THEN Find(id)
  ELSE [id |-> id, effect |-> "blast", damage |-> 0, radius |-> 0]

(* weapons.find(...) || weapons[0] of the firing effect.                   *)
SelectedDefinition(id) == IF Known(id) THEN Find(id) ELSE weapons[1]

(* weapons.find(...) of the collision handler, with its ?? defaults.       *)
ImpactDefinition(id) ==
  IF Known(id) THEN Find(id)
  ELSE [id |-> id, effect |-> "none", damage |-> DefaultDamage, radius |-> DefaultRadius]

(* ---------------------------- terrain ---------------------------------- *)
Abs(a) == IF a < 0 THEN -a ELSE a
SegCenter(i) == (i - 1) * SegWidth + SegWidth \div 2

(* A destroyAt without the clamp at 0.                                     *)
destroyAtUnclamped(h, x, radius) ==
  [i \in DOMAIN h |->
     LET dist == Abs(SegCenter(i) - x)
     IN IF dist <= radius THEN h[i] - (radius - dist) ELSE h[i]]

(* A destroyAt that takes the whole radius off every segment in range.     *)
destroyAtNoFalloff(h, x, radius) ==
  [i \in DOMAIN h |->
     LET dist == Abs(SegCenter(i) - x)
     IN IF dist <= radius THEN Max(0, h[i] - radius) ELSE h[i]]

destroyAt(h, x, radius) ==
  [i \in DOMAIN h |->
     LET dist == Abs(SegCenter(i) - x)
     IN IF dist <= radius THEN Max(0, h[i] - (radius - dist)) ELSE h[i]]

(* A getHeightAt that answers the nearest segment's height for an x        *)
(* outside the terrain.                                                    *)
getHeightAtNearest(h, x) ==
  IF x < 0 THEN h[1]
  ELSE IF x >= Len(h) * SegWidth THEN h[Len(h)]
  ELSE h[(x \div SegWidth) + 1]

getHeightAt(h, x) ==
  IF x < 0 \/ x >= Len(h) * SegWidth THEN 0 ELSE h[(x \div SegWidth) + 1]

(* ------------------------ projectilesRef as a bag ---------------------- *)
BagCount(b, k) == Lookup(b, k, 0)
BagAdd(b, k, n) ==
  IF n = 0 THEN b
  ELSE [x \in DOMAIN b \cup {k} |-> BagCount(b, x) + (IF x = k THEN n ELSE 0)]
BagRemoveOne(b, k) ==
  IF BagCount(b, k) <= 1 THEN [x \in DOMAIN b \ {k} |-> b[x]]
  ELSE [b EXCEPT ![k] = @ - 1]

Primary(id) == [id |-> id, frag |-> FALSE]
Fragment(id) == [id |-> id, frag |-> TRUE]

(* The damage loop of the collision handler: every player of the list      *)
(* within the radius takes the weapon's damage.                            *)
damagePlayers(hp, radius, damage, d) ==
  [i \in DOMAIN hp |-> IF d[i] <= radius THEN TakeDamage(hp[i], damage) ELSE hp[i]]

FragmentCount(effect) ==
  CASE effect = "cluster" -> ClusterCount
    [] effect = "multiple" -> MultipleCount
    [] OTHER -> 0

(* One pair of a collisionStart event holding the projectile k.            *)
collisionPair(st, k, x, d) ==
  LET w == ImpactDefinition(k.id)
      spawned == BagAdd(st.bag, Fragment(k.id), FragmentCount(w.effect))
  IN [hp |-> damagePlayers(st.hp, w.radius, w.damage, d),
      hts |-> destroyAt(st.hts, x, w.radius),
      bag |-> IF st.tracked THEN BagRemoveOne(spawned, k) ELSE spawned,
      tracked |-> FALSE]

RECURSIVE collisionPairs(_, _, _, _, _)
collisionPairs(st, k, n, x, d) ==
  IF n = 0 THEN st ELSE collisionPairs(collisionPair(st, k, x, d), k, n - 1, x, d)

(* decreaseAmmo and increaseAmmo of the store, on one unit's counters;     *)
(* before them, a decreaseAmmo on a counter that all units share.          *)
decreaseAmmoOfAll(am, i, w) == [j \in DOMAIN am |-> ConsumeMap(am[j], w)]

(* A decreaseAmmo that decrements a tracked counter even at 0.             *)
decreaseAmmoUnguarded(am, i, w) == [am EXCEPT ![i] = ConsumeAlways(@, w)]

decreaseAmmo(am, i, w) == [am EXCEPT ![i] = ConsumeMap(@, w)]
increaseAmmo(am, i, w, n) ==
  [am EXCEPT ![i] = [x \in DOMAIN @ \cup {w} |-> Lookup(@, x, 0) + (IF x = w THEN n ELSE 0)]]

MaxHealth(i) == units[i + 1].health * HealthDen

CrateKinds ==
  {[type |-> "health", weaponId |-> ""]}
    \cup {[type |-> "ammo", weaponId |-> w] : w \in CrateWeapons}

RemoveAt(q, i) == [j \in 1 .. Len(q) - 1 |-> IF j < i THEN q[j] ELSE q[j + 1]]

(* The effect on currentTurn, run at mount and after every change of the   *)
(* turn: a crate may be dropped.                                           *)
spawnCrate(cs, turns) ==
  {cs} \cup (IF Len(cs) < MaxCrates /\ turns < MaxDrops
             THEN {Append(cs, c) : c \in CrateKinds} ELSE {})

Init ==
  /\ units = << CHOOSE u \in UnitCatalog : u.id = "tank",
                CHOOSE u \in UnitCatalog : u.id = "drone",
                CHOOSE u \in UnitCatalog : u.id = "walker" >>
  /\ currentTurn = 0
  /\ angle = InitAngle
  /\ power = InitPower
  /\ wind = 1
  /\ \E am \in {EmptyMap, [w \in {"nuke"} |-> 1]} : ammo = [i \in 0 .. 2 |-> am]
  /\ cooldowns = EmptyMap
  /\ gameOver = FALSE
  /\ selectedWeapon = weapons[1].id
  /\ firing = FALSE
  /\ playersRef = <<0, 1, 2>>
  /\ health = [i \in 0 .. 2 |-> units[i + 1].health * HealthDen]
  /\ impacts = 0
  /\ mounted = [weapon |-> "rocket", cooldowns |-> EmptyMap, gameOver |-> FALSE, wind |-> wind]
  /\ shots = << >>
  /\ projectiles = EmptyMap
  /\ crates = << >>
  /\ heights = [i \in 1 .. NumSegments |-> InitHeight]
  /\ fired = 0
  /\ lastCall = NoCall
  /\ cdTrace = [w \in StoreWeapons |-> 0]
  /\ lastBlast = NoBlast
  /\ lastTeleport = NoTeleport
  /\ lastContact = NoContact
  /\ SetupDone

(* The beam branch of the firing effect: flat damage to every living unit *)
(* other than the acting one within the tolerance of the beam line.        *)
(* Math.random() * (worldWidth - margin * 2) + margin, floored: the two    *)
(* ends of the range and its middle.                                       *)
TeleportXs(worldWidth) ==
  {TeleportMargin, worldWidth \div 2, worldWidth - TeleportMargin - 1}

(* The teleport branch of the firing effect: the position handed to        *)
(* Matter.Body.setPosition for the current player.                         *)
teleportTo(hts, cur, newX) ==
  LET groundHeight == getHeightAt(hts, newX)
  IN [unit |-> cur, actor |-> cur, x |-> newX,
      y |-> WorldHeight - groundHeight - PlayerHeight \div 2 - 1,
      ground |-> groundHeight, half |-> PlayerHeight \div 2,
      width |-> Len(hts) * SegWidth]

beamDamage(hp, cur, damage, d) ==
  [i \in DOMAIN hp |->
     IF hp[i] > 0 /\ i # cur /\ d[i] <= BeamTolerance
     THEN TakeDamage(hp[i], damage) ELSE hp[i]]

(* setSelectedWeapon *)
SetSelectedWeapon(w) ==
  /\ fired < MaxShots
  /\ ~firing
  /\ selectedWeapon' = w
  /\ UNCHANGED <<setupCompleted, unitsPerTeam, units, angle, power, currentTurn, wind, ammo, cooldowns, gameOver, firing>>
  /\ UNCHANGED <<playerVars, boundVars, arcadeVars, engineVars, histVars>>

(* setFiring(true) of the space key and of the fire button, followed by    *)
(* the firing effect that the change of the flag triggers. finishTurn is   *)
(* decreaseAmmo, nextTurn, setFiring(false); while the flag is stuck at    *)
(* TRUE a further setFiring(true) changes nothing and no effect runs.      *)
Fire(d) ==
  /\ fired < MaxShots
  /\ ~firing
  /\ IF ~(currentTurn \in Roster /\ isAlive(currentTurn))
     THEN /\ firing' = TRUE
          /\ UNCHANGED <<setupCompleted, unitsPerTeam, units, angle, power, currentTurn, wind, ammo, cooldowns, gameOver, selectedWeapon>>
          /\ UNCHANGED <<playerVars, projectiles, crates, heights, fired, lastTeleport>>
     ELSE LET weapon == SelectedDefinition(selectedWeapon) IN
          /\ health' =
               IF weapon.effect = "beam"
               THEN beamDamage(health, currentTurn, weapon.damage, d)
               ELSE health
          /\ projectiles' =
               IF weapon.effect \in {"teleport", "fly", "beam"} THEN projectiles
               ELSE BagAdd(projectiles, Primary(weapon.id), 1)
          /\ ammo' = decreaseAmmo(ammo, currentTurn, weapon.id)
          /\ currentTurn' = NextIndex(currentTurn, Len(units))
          /\ wind' \in WindValues
          /\ firing' = FALSE
          /\ crates' \in spawnCrate(crates, fired)
          /\ fired' = fired + 1
          /\ IF weapon.effect = "teleport"
             THEN \E newX \in TeleportXs(Len(heights) * SegWidth) :
                    lastTeleport' = teleportTo(heights, currentTurn, newX)
             ELSE UNCHANGED lastTeleport
          /\ UNCHANGED <<setupCompleted, unitsPerTeam, units, angle, power, cooldowns, gameOver, selectedWeapon, playersRef, heights>>
  /\ UNCHANGED <<boundVars, arcadeVars, lastCall, cdTrace, lastBlast, lastContact>>

(* The collisionStart handler, for an event whose n pairs hold the same    *)
(* projectile k, at impact abscissa x.                                     *)
CollideProjectile(k, n, x, d) ==
  /\ BagCount(projectiles, k) > 0
  /\ impacts + n <= MaxBlasts
  /\ impacts' = impacts + n
  /\ LET st == [hp |-> health, hts |-> heights, bag |-> projectiles, tracked |-> TRUE]
         after == collisionPairs(st, k, n, x, d)
     IN /\ health' = after.hp
        /\ heights' = after.hts
        /\ projectiles' = after.bag
  /\ UNCHANGED <<storeVars, playersRef, arcadeVars, histVars>>
  /\ UNCHANGED <<crates, fired>>

(* The collisionStart handler, a crate touching the body of player i.      *)
CollideCrate(c, i) ==
  /\ c \in DOMAIN crates
  /\ isAlive(i)
  /\ ammo' = IF crates[c].type = "ammo" /\ crates[c].weaponId # ""
             THEN increaseAmmo(ammo, i, crates[c].weaponId, CrateAmmo) ELSE ammo
  /\ health' = IF crates[c].type = "health"
               THEN [health EXCEPT ![i] = Min(@ + CrateHealth * HealthDen, MaxHealth(i))]
               ELSE health
  /\ crates' = RemoveAt(crates, c)
  /\ UNCHANGED <<setupCompleted, unitsPerTeam, units, angle, power, currentTurn, wind, cooldowns, gameOver, selectedWeapon, firing>>
  /\ UNCHANGED <<playersRef, boundVars, arcadeVars, histVars>>
  /\ UNCHANGED <<projectiles, heights, fired>>

(* The ticker, a projectile having left the viewport.                      *)
TickerProjectileLeaves(k) ==
  /\ BagCount(projectiles, k) > 0
  /\ projectiles' = BagRemoveOne(projectiles, k)
  /\ UNCHANGED <<storeVars, playerVars, boundVars, arcadeVars, histVars>>
  /\ UNCHANGED <<crates, heights, fired>>

(* The ticker, a crate having fallen below the viewport.                   *)
TickerCrateLeaves(c) ==
  /\ c \in DOMAIN crates
  /\ crates' = RemoveAt(crates, c)
  /\ UNCHANGED <<storeVars, playerVars, boundVars, arcadeVars, histVars>>
  /\ UNCHANGED <<projectiles, heights, fired>>

ProjectileKinds == {Primary(id) : id \in WeaponIds} \cup {Fragment(id) : id \in WeaponIds}

Next ==
  \/ \E w \in SelectableIds : SetSelectedWeapon(w)
  \/ \E d \in [Roster -> EngineDists] : Fire(d)
  \/ \E k \in ProjectileKinds, n \in 1 .. MaxPairs, x \in ImpactXs, d \in [Roster -> EngineDists] :
       CollideProjectile(k, n, x, d)
  \/ \E c \in 1 .. MaxCrates, i \in Roster : CollideCrate(c, i)
  \/ \E k \in ProjectileKinds : TickerProjectileLeaves(k)
  \/ \E c \in 1 .. MaxCrates : TickerCrateLeaves(c)

Spec == Init /\ [][Next]_vars

(* ============ blast resolution alone, at fine distances ================ *)
BlastDists == {0, 20, 40, 41}
BlastKinds == {"rocket", "meteor"}
BlastIds == {"rocket", "cluster_bomb"}

InitBlast ==
  /\ units \in {<<a, b>> : a, b \in UnitCatalog}
  /\ currentTurn = 0
  /\ angle = InitAngle
  /\ power = InitPower
  /\ wind = 1
  /\ ammo = [i \in 0 .. 1 |-> EmptyMap]
  /\ cooldowns = EmptyMap
  /\ gameOver = FALSE
  /\ selectedWeapon = "rocket"
  /\ firing = FALSE
  /\ playersRef = <<0, 1>>
  /\ health = [i \in 0 .. 1 |-> units[i + 1].health * HealthDen]
  /\ InitIdleEngines
  /\ lastCall = NoCall
  /\ cdTrace = [w \in StoreWeapons |-> 0]
  /\ lastBlast = NoBlast
  /\ lastTeleport = NoTeleport
  /\ lastContact = NoContact
  /\ SetupDone

(* handleWeaponImpact of the keyboard-driven engine, one impact.           *)
BlastArcade(kind, d) ==
  /\ impacts < MaxBlasts
  /\ impacts' = impacts + 1
  /\ LET st == [ref |-> playersRef, hp |-> health, removed |-> FALSE, timeouts |-> 0, moved |-> -1]
         after == handleWeaponImpact(st, kind, d)
     IN /\ playersRef' = after.ref
        /\ health' = after.hp
  /\ lastBlast' = [path |-> "applyAreaDamage", radius |-> weaponDamageSpec[kind].radius,
                   damage |-> weaponDamageSpec[kind].damage, d |-> d, before |-> health]
  /\ UNCHANGED <<storeVars, arcadeVars, engineVars, lastCall, cdTrace, lastTeleport, lastContact>>

(* The damage loop of the store-driven engine's collision handler, one     *)
(* impact of a projectile of weapon id.                                    *)
BlastEngine(id, d) ==
  /\ impacts < MaxBlasts
  /\ impacts' = impacts + 1
  /\ LET w == ImpactDefinition(id) IN
     /\ health' = damagePlayers(health, w.radius, w.damage, d)
     /\ lastBlast' = [path |-> "collisionStart", radius |-> w.radius,
                      damage |-> w.damage, d |-> d, before |-> health]
  /\ UNCHANGED <<storeVars, playersRef, arcadeVars, engineVars, lastCall, cdTrace, lastTeleport, lastContact>>

NextBlast ==
  \/ \E kind \in BlastKinds, d \in [Roster -> BlastDists] : BlastArcade(kind, d)
  \/ \E id \in BlastIds, d \in [Roster -> BlastDists] : BlastEngine(id, d)

SpecBlast == InitBlast /\ [][NextBlast]_vars

(* ============== beam resolution alone, at fine distances =============== *)
BeamDists == {0, 19, 20, 21}

(* applyLineDamage as the laser_beam branch of fireProjectileFrom calls it. *)
BeamArcade(d) ==
  /\ impacts < MaxBlasts
  /\ impacts' = impacts + 1
  /\ LET st == [ref |-> playersRef, hp |-> health, removed |-> FALSE, timeouts |-> 0, moved |-> -1]
         after == applyLineDamage(st, LineDamage, d)
     IN /\ playersRef' = after.ref
        /\ health' = after.hp
  /\ lastBlast' = [path |-> "applyLineDamage", radius |-> LineTolerance,
                   damage |-> LineDamage, d |-> d, before |-> health]
  /\ UNCHANGED <<storeVars, arcadeVars, engineVars, lastCall, cdTrace, lastTeleport, lastContact>>

(* The beam branch of the store-driven firing effect, unit currentTurn     *)
(* acting.                                                                 *)
BeamEngine(d) ==
  /\ impacts < MaxBlasts
  /\ impacts' = impacts + 1
  /\ LET weapon == Find("laser_beam") IN
     /\ health' = beamDamage(health, currentTurn, weapon.damage, d)
     /\ lastBlast' = [path |-> "beam", radius |-> BeamTolerance,
                      damage |-> weapon.damage, d |-> d, before |-> health]
  /\ UNCHANGED <<storeVars, playersRef, arcadeVars, engineVars, lastCall, cdTrace, lastTeleport, lastContact>>

NextBeam ==
  \/ \E d \in [Roster -> BeamDists] : BeamArcade(d)
  \/ \E d \in [Roster -> BeamDists] : BeamEngine(d)

SpecBeam == InitBlast /\ [][NextBeam]_vars

(* ======================= aiming through the store ====================== *)
AimInputs == {-10, 0, 37, 90, 95, 200}

InitAim ==
  /\ units \in {<<a, b>> : a, b \in UnitCatalog}
  /\ currentTurn = 0
  /\ angle = InitAngle
  /\ power = InitPower
  /\ wind = 1
  /\ ammo = [i \in 0 .. 1 |-> EmptyMap]
  /\ cooldowns = EmptyMap
  /\ gameOver = FALSE
  /\ selectedWeapon = "rocket"
  /\ firing = FALSE
  /\ playersRef = <<0, 1>>
  /\ health = [i \in 0 .. 1 |-> units[i + 1].health * HealthDen]
  /\ InitIdleEngines
  /\ lastCall = NoCall
  /\ cdTrace = [w \in StoreWeapons |-> 0]
  /\ lastBlast = NoBlast
  /\ lastTeleport = NoTeleport
  /\ lastContact = NoContact
  /\ SetupDone

(* setAngle; lastCall.ms records the argument.                             *)
SetAngle(a) ==
  /\ angle' = clamped(AngleMin, AngleMax, a)
  /\ lastCall' = [NoCall EXCEPT !.op = "setAngle", !.ms = a]
  /\ UNCHANGED <<setupCompleted, unitsPerTeam, units, power, currentTurn, wind, ammo, cooldowns, gameOver,
                 selectedWeapon, firing>>
  /\ UNCHANGED <<playerVars, boundVars, arcadeVars, engineVars, cdTrace, lastBlast, lastTeleport, lastContact>>

(* setPower; lastCall.ms records the argument.                             *)
SetPower(p) ==
  /\ power' = clamped(PowerMin, PowerMax, p)
  /\ lastCall' = [NoCall EXCEPT !.op = "setPower", !.ms = p]
  /\ UNCHANGED <<setupCompleted, unitsPerTeam, units, angle, currentTurn, wind, ammo, cooldowns, gameOver,
                 selectedWeapon, firing>>
  /\ UNCHANGED <<playerVars, boundVars, arcadeVars, engineVars, cdTrace, lastBlast, lastTeleport, lastContact>>

(* handleKeyDown: the arrow keys.                                          *)
KeyArrowUp == SetAngle(angle + AngleStep)
KeyArrowDown == SetAngle(angle - AngleStep)
KeyArrowRight == SetPower(power + PowerStep)
KeyArrowLeft == SetPower(power - PowerStep)

NextAim ==
  \/ \E a \in AimInputs : SetAngle(a)
  \/ \E p \in AimInputs : SetPower(p)
  \/ KeyArrowUp
  \/ KeyArrowDown
  \/ KeyArrowRight
  \/ KeyArrowLeft

SpecAim == InitAim /\ [][NextAim]_vars

(* ------------- the teleport of the store-driven engine ----------------- *)
(* The firing effect with the teleport weapon selected, over a terrain as  *)
(* wide as the renderer and cratered by earlier explosions.                *)
TeleportSegments == WorldWidth \div SegWidth
TeleportCraters == {<< >>, <<[x |-> 100, r |-> 40]>>,
                    <<[x |-> 240, r |-> 100]>>,
                    <<[x |-> 100, r |-> 40], [x |-> 380, r |-> 100]>>}

RECURSIVE Cratered(_, _)
Cratered(h, cs) ==
  IF cs = << >> THEN h
  ELSE Cratered(destroyAt(h, Head(cs).x, Head(cs).r), Tail(cs))

InitTeleport ==
  /\ units = << CHOOSE u \in UnitCatalog : u.id = "tank",
                CHOOSE u \in UnitCatalog : u.id = "drone",
                CHOOSE u \in UnitCatalog : u.id = "walker" >>
  /\ currentTurn \in 0 .. 2
  /\ angle = InitAngle
  /\ power = InitPower
  /\ wind = 1
  /\ \E am \in {EmptyMap, [w \in {"teleport"} |-> 1]} : ammo = [i \in 0 .. 2 |-> am]
  /\ cooldowns = EmptyMap
  /\ gameOver = FALSE
  /\ selectedWeapon = "teleport"
  /\ firing = FALSE
  /\ playersRef = <<0, 1, 2>>
  /\ health = [i \in 0 .. 2 |-> units[i + 1].health * HealthDen]
  /\ impacts = 0
  /\ mounted = [weapon |-> "rocket", cooldowns |-> EmptyMap, gameOver |-> FALSE, wind |-> wind]
  /\ shots = << >>
  /\ projectiles = EmptyMap
  /\ crates = << >>
  /\ \E cs \in TeleportCraters :
       heights = Cratered([i \in 1 .. TeleportSegments |-> InitHeight], cs)
  /\ fired = 0
  /\ lastCall = NoCall
  /\ cdTrace = [w \in StoreWeapons |-> 0]
  /\ lastBlast = NoBlast
  /\ lastTeleport = NoTeleport
  /\ lastContact = NoContact
  /\ SetupDone

NextTeleport == \E d \in [Roster -> EngineDists] : Fire(d)

SpecTeleport == InitTeleport /\ [][NextTeleport]_vars

(* ------------------------- the attraction well ------------------------- *)
(* The keyboard-driven engine with the black hole mounted: every shot is   *)
(* a well, living through its interval and its timeout.                    *)
InitWell == InitArcade /\ selectedWeapon = "black_hole"

NextWell ==
  \/ \E d \in [Roster -> Dists] : KeySpace(d)
  \/ \E s \in DOMAIN shots : TimerWellTick(s)
  \/ \E s \in DOMAIN shots : TimerWellEnd(s)
  \/ TickerArcade

(* A pending setTimeout fires.                                             *)
FairWell == \A s \in 1 .. MaxShots : WF_vars(s \in DOMAIN shots /\ TimerWellEnd(s))

SpecWell == InitWell /\ [][NextWell]_vars /\ FairWell

(* --------------------------- terrain carving --------------------------- *)
(* destroyAt called on the terrain of the store-driven engine, at the      *)
(* centre or the edge of a segment, with a small or a large radius.  The   *)
(* ordinate of the call plays no part in the heights.  lastCall records    *)
(* the arguments, the heights the call found, and whether the call before  *)
(* it had the same arguments.                                              *)
CarveXs == {-10, 20, 40, 100}
CarveRadii == {10, 40}

Carve(x, radius) ==
  /\ heights' = destroyAt(heights, x, radius)
  /\ lastCall' = [op |-> "destroyAt", x |-> x, radius |-> radius,
                  before |-> heights,
                  again |-> /\ lastCall.op = "destroyAt"
                            /\ lastCall.x = x
                            /\ lastCall.radius = radius]
  /\ UNCHANGED <<storeVars, playerVars, boundVars, arcadeVars>>
  /\ UNCHANGED <<projectiles, crates, fired, cdTrace, lastBlast, lastTeleport, lastContact>>

(* getHeightAt called at the ends of the terrain, at a segment boundary    *)
(* and just outside.  lastCall records the argument, the answer, the       *)
(* heights the call found, and the answer of the call before it when that  *)
(* was a getHeightAt of the same x.                                        *)
QueryXs == {-1, 0, 39, 40, 119, 120}

GetHeight(x) ==
  /\ lastCall' =
       LET again == lastCall.op = "getHeightAt" /\ lastCall.x = x
       IN [op |-> "getHeightAt", x |-> x,
           result |-> getHeightAt(heights, x),
           before |-> heights,
           again |-> again,
           prev |-> IF again THEN lastCall.result ELSE 0]
  /\ UNCHANGED <<storeVars, playerVars, boundVars, arcadeVars, engineVars>>
  /\ UNCHANGED <<cdTrace, lastBlast, lastTeleport, lastContact>>

NextCarve ==
  \/ \E x \in CarveXs, radius \in CarveRadii : Carve(x, radius)
  \/ \E x \in QueryXs : GetHeight(x)

SpecCarve == Init /\ [][NextCarve]_vars

(* ----------------------- ids outside the catalog ----------------------- *)
(* The store-driven engine with weapon ids the catalog does not hold: one  *)
(* selected and fired, and one carried by a projectile body that meets     *)
(* the collision handler (a body the firing effect itself never makes).    *)
UnknownId == "unknown"

CollideUnknown(x, d) ==
  /\ impacts < MaxBlasts
  /\ impacts' = impacts + 1
  /\ LET st == [hp |-> health, hts |-> heights, bag |-> projectiles, tracked |-> FALSE]
         after == collisionPair(st, Primary(UnknownId), x, d)
     IN /\ health' = after.hp
        /\ heights' = after.hts
        /\ projectiles' = after.bag
  /\ lastBlast' = [path |-> "unknownProjectile", x |-> x, d |-> d,
                   before |-> health, hts |-> heights, bag |-> projectiles]
  /\ UNCHANGED <<storeVars, playersRef, arcadeVars, crates, fired>>
  /\ UNCHANGED <<lastCall, cdTrace, lastTeleport, lastContact>>

NextUnknown ==
  \/ \E w \in {UnknownId, "nuke"} : SetSelectedWeapon(w)
  \/ \E d \in [Roster -> EngineDists] : Fire(d)
  \/ \E x \in ImpactXs, d \in [Roster -> EngineDists] : CollideUnknown(x, d)

SpecUnknown == Init /\ [][NextUnknown]_vars

(* ------------- ammo counters under firing and crate collection --------- *)
(* The store-driven engine with the selected weapon's counter at 0 for     *)
(* the first unit to act and at 0 or 1 for the others: finishTurn calls    *)
(* decreaseAmmo on a counter that is already 0, and an ammo crate raises a *)
(* counter that a later shot lowers again.                                 *)
InitAmmo ==
  /\ units = << CHOOSE u \in UnitCatalog : u.id = "tank",
                CHOOSE u \in UnitCatalog : u.id = "drone",
                CHOOSE u \in UnitCatalog : u.id = "walker" >>
  /\ currentTurn = 0
  /\ angle = InitAngle
  /\ power = InitPower
  /\ wind = 1
  /\ \E c \in [1 .. 2 -> 0 .. 1] :
       ammo = [i \in 0 .. 2 |-> [w \in {"nuke"} |-> IF i = 0 THEN 0 ELSE c[i]]]
  /\ cooldowns = EmptyMap
  /\ gameOver = FALSE
  /\ selectedWeapon = "nuke"
  /\ firing = FALSE
  /\ playersRef = <<0, 1, 2>>
  /\ health = [i \in 0 .. 2 |-> units[i + 1].health * HealthDen]
  /\ impacts = 0
  /\ mounted = [weapon |-> "rocket", cooldowns |-> EmptyMap, gameOver |-> FALSE, wind |-> wind]
  /\ shots = << >>
  /\ projectiles = EmptyMap
  /\ crates = << >>
  /\ heights = [i \in 1 .. NumSegments |-> InitHeight]
  /\ fired = 0
  /\ lastCall = NoCall
  /\ cdTrace = [w \in StoreWeapons |-> 0]
  /\ lastBlast = NoBlast
  /\ lastTeleport = NoTeleport
  /\ lastContact = NoContact
  /\ SetupDone

NextAmmo ==
  \/ \E d \in [Roster -> EngineDists] : Fire(d)
  \/ \E c \in 1 .. MaxCrates, i \in Roster : CollideCrate(c, i)
  \/ \E k \in ProjectileKinds : TickerProjectileLeaves(k)
  \/ \E c \in 1 .. MaxCrates : TickerCrateLeaves(c)

SpecAmmo == InitAmmo /\ [][NextAmmo]_vars

(* --------------- one blast, the list visited unit by unit --------------- *)
(* applyAreaDamage as the code runs it: Array.filter calls its callback on *)
(* the players of the list one after the other; the callback measures the  *)
(* player's own distance, has it take the damage and answers !lethal, so a *)
(* lethally hit player is left out of the new list. acc.lethal is the      *)
(* answer of the last takeDamage.                                          *)
OrderKinds == {"rocket", "nuke"}
OrderDists == {0, 40, 101}

(* A callback that passes over the player following a lethally hit one, as *)
(* an index loop does that splices the list it iterates.                   *)
areaDamageVisitSplicing(acc, i, spec, d) ==
  IF acc.lethal THEN [acc EXCEPT !.ref = Append(@, i), !.lethal = FALSE]
  ELSE IF d[i] <= spec.radius
  THEN LET dealt == AreaDealt(spec.damage, spec.radius, d[i])
           hp == TakeDamageShield(acc.hp[i], ShieldOf(i), dealt)
       IN [hp |-> [acc.hp EXCEPT ![i] = hp],
           dealt |-> [acc.dealt EXCEPT ![i] = dealt],
           ref |-> IF hp <= 0 THEN acc.ref ELSE Append(acc.ref, i),
           lethal |-> hp <= 0]
  ELSE [acc EXCEPT !.ref = Append(@, i), !.lethal = FALSE]

areaDamageVisit(acc, i, spec, d) ==
  IF d[i] <= spec.radius
  THEN LET dealt == AreaDealt(spec.damage, spec.radius, d[i])
           hp == TakeDamageShield(acc.hp[i], ShieldOf(i), dealt)
       IN [hp |-> [acc.hp EXCEPT ![i] = hp],
           dealt |-> [acc.dealt EXCEPT ![i] = dealt],
           ref |-> IF hp <= 0 THEN acc.ref ELSE Append(acc.ref, i),
           lethal |-> hp <= 0]
  ELSE [acc EXCEPT !.ref = Append(@, i), !.lethal = FALSE]

RECURSIVE areaDamageOver(_, _, _, _)
areaDamageOver(ref, acc, spec, d) ==
  IF ref = << >> THEN acc
  ELSE areaDamageOver(Tail(ref), areaDamageVisit(acc, Head(ref), spec, d), spec, d)

areaDamageStart(hp) ==
  [hp |-> hp, dealt |-> [i \in DOMAIN hp |-> 0], ref |-> << >>, lethal |-> FALSE]

(* Every order in which the players of a list can stand.                   *)
Orders(ref) ==
  {p \in [1 .. Len(ref) -> {ref[k] : k \in 1 .. Len(ref)}] :
     \A a, b \in 1 .. Len(ref) : a # b => p[a] # p[b]}

InitOrder ==
  /\ units = << CHOOSE u \in UnitCatalog : u.id = "tank",
                CHOOSE u \in UnitCatalog : u.id = "drone",
                CHOOSE u \in UnitCatalog : u.id = "walker" >>
  /\ currentTurn = 0
  /\ angle = InitAngle
  /\ power = InitPower
  /\ wind = 1
  /\ ammo = [i \in 0 .. 2 |-> EmptyMap]
  /\ cooldowns = EmptyMap
  /\ gameOver = FALSE
  /\ selectedWeapon = "rocket"
  /\ firing = FALSE
  /\ playersRef = <<0, 1, 2>>
  /\ health = [i \in 0 .. 2 |-> units[i + 1].health * HealthDen]
  /\ InitIdleEngines
  /\ lastCall = NoCall
  /\ cdTrace = [w \in StoreWeapons |-> 0]
  /\ lastBlast = NoBlast
  /\ lastTeleport = NoTeleport
  /\ lastContact = NoContact
  /\ SetupDone

(* One call of applyAreaDamage with the radius and damage of a weapon.     *)
BlastOrdered(kind, d) ==
  /\ impacts < MaxBlasts
  /\ impacts' = impacts + 1
  /\ LET spec == weaponDamageSpec[kind]
         after == areaDamageOver(playersRef, areaDamageStart(health), spec, d)
     IN /\ playersRef' = after.ref
        /\ health' = after.hp
        /\ lastBlast' = [path |-> "filter", radius |-> spec.radius, damage |-> spec.damage,
                         d |-> d, before |-> health, dealt |-> after.dealt]
  /\ UNCHANGED <<storeVars, arcadeVars, engineVars, lastCall, cdTrace, lastTeleport, lastContact>>

NextOrder == \E kind \in OrderKinds, d \in [Roster -> OrderDists] : BlastOrdered(kind, d)

SpecOrder == InitOrder /\ [][NextOrder]_vars

(* ------------- the store-driven engine with its ticker fair ------------- *)
(* The ticker runs every frame: a projectile or a crate that stays in      *)
(* flight ends below the viewport and is removed. Input is never forced.   *)
FairEngine ==
  /\ WF_vars(\E k \in ProjectileKinds : TickerProjectileLeaves(k))
  /\ WF_vars(\E c \in 1 .. MaxCrates : TickerCrateLeaves(c))

SpecLive == Spec /\ FairEngine

(* ------------------ the store before and at match setup ----------------- *)
(* The store as create() leaves it: no units, setupCompleted false, one    *)
(* unit per team; then setUnitsPerTeam, initializeGame and nextTurn in any *)
(* order.                                                                  *)
MaxIds == 3
UnitIds == {"tank", "walker", "ghost"}
TeamSizeInputs == 0 .. 3

(* The value of (currentTurn + 1) % 0, and of any arithmetic on it: not a  *)
(* number, kept as an integer that is no index of any roster.              *)
NaN == -1

(* unitsData in the order of the catalog, and the undefined that find      *)
(* answers for an id the catalog does not hold.                            *)
allUnits ==
  << CHOOSE u \in UnitCatalog : u.id = "tank",
     CHOOSE u \in UnitCatalog : u.id = "drone",
     CHOOSE u \in UnitCatalog : u.id = "walker" >>

Undefined == [id |-> "undefined", special |-> "None", health |-> 0]

(* all.find((u) => u.id === id)                                            *)
findUnit(id) ==
  IF \E k \in DOMAIN allUnits : allUnits[k].id = id
  THEN allUnits[CHOOSE k \in DOMAIN allUnits :
                  allUnits[k].id = id /\ \A j \in 1 .. k - 1 : allUnits[j].id # id]
  ELSE Undefined

(* A mapping of the ids that keeps the undefined entries.                  *)
chosenUnfiltered(ids) == [k \in 1 .. Len(ids) |-> findUnit(ids[k])]

(* selectedUnitIds.map(find).filter(Boolean)                               *)
chosenOf(ids) ==
  SelectSeq([k \in 1 .. Len(ids) |-> findUnit(ids[k])], LAMBDA u : u # Undefined)

(* q.slice(0, n)                                                           *)
slice(q, n) == SubSeq(q, 1, Min(Len(q), n))

(* while (chosen.length < requiredCount) chosen.push(chosen[0] ?? all[0])  *)
RECURSIVE fill(_, _)
fill(chosen, requiredCount) ==
  IF Len(chosen) < requiredCount
  THEN LET first == IF chosen = << >> THEN Undefined ELSE chosen[1]
       IN fill(Append(chosen, IF first = Undefined THEN allUnits[1] ELSE first), requiredCount)
  ELSE chosen

(* The units that initializeGame stores.                                   *)
initializeGame(ids, perTeam) ==
  LET chosen == IF Len(ids) > 0 THEN chosenOf(ids) ELSE slice(allUnits, perTeam * 2)
      requiredCount == perTeam * 2
  IN slice(fill(chosen, requiredCount), requiredCount)

(* (state.currentTurn + 1) % state.units.length in JavaScript arithmetic.  *)
nextIndex(cur, n) == IF cur = NaN \/ n = 0 THEN NaN ELSE NextIndex(cur, n)

InitSetup ==
  /\ setupCompleted = FALSE
  /\ unitsPerTeam = 1
  /\ units = << >>
  /\ currentTurn = 0
  /\ angle = InitAngle
  /\ power = InitPower
  /\ wind = 0
  /\ ammo = EmptyMap
  /\ cooldowns = EmptyMap
  /\ gameOver = FALSE
  /\ selectedWeapon = weapons[1].id
  /\ firing = FALSE
  /\ playersRef = << >>
  /\ health = EmptyMap
  /\ InitIdleEngines
  /\ lastCall = NoCall
  /\ cdTrace = [w \in StoreWeapons |-> 0]
  /\ lastBlast = NoBlast
  /\ lastTeleport = NoTeleport
  /\ lastContact = NoContact

SetupSetUnitsPerTeam(n) ==
  /\ unitsPerTeam' = clamped(1, 2, n)
  /\ lastCall' = [op |-> "setUnitsPerTeam", n |-> n]
  /\ UNCHANGED <<setupCompleted, units, angle, power, currentTurn, wind, ammo, cooldowns,
                 gameOver, selectedWeapon, firing>>
  /\ UNCHANGED <<playerVars, boundVars, arcadeVars, engineVars, cdTrace, lastBlast,
                 lastTeleport, lastContact>>

SetupInitializeGame(ids) ==
  /\ units' = initializeGame(ids, unitsPerTeam)
  /\ setupCompleted' = TRUE
  /\ currentTurn' = 0
  /\ wind' \in WindValues
  /\ lastCall' = [op |-> "initializeGame", ids |-> ids]
  /\ UNCHANGED <<unitsPerTeam, angle, power, ammo, cooldowns, gameOver, selectedWeapon, firing>>
  /\ UNCHANGED <<playerVars, boundVars, arcadeVars, engineVars, cdTrace, lastBlast,
                 lastTeleport, lastContact>>

SetupNextTurn ==
  /\ currentTurn' = nextIndex(currentTurn, Len(units))
  /\ wind' \in WindValues
  /\ lastCall' = [op |-> "nextTurn"]
  /\ UNCHANGED <<setupCompleted, unitsPerTeam, units, angle, power, ammo, cooldowns,
                 gameOver, selectedWeapon, firing>>
  /\ UNCHANGED <<playerVars, boundVars, arcadeVars, engineVars, cdTrace, lastBlast,
                 lastTeleport, lastContact>>

IdLists == UNION {[1 .. n -> UnitIds] : n \in 0 .. MaxIds}

NextSetup ==
  \/ \E n \in TeamSizeInputs : SetupSetUnitsPerTeam(n)
  \/ \E ids \in IdLists : SetupInitializeGame(ids)
  \/ SetupNextTurn

SpecSetup == InitSetup /\ [][NextSetup]_vars

(* --------------- a crate met by several players in one event ------------ *)
(* The crate branch of the collisionStart handler, for an event whose      *)
(* pairs hold the same crate c and the bodies of the players ps, one pair  *)
(* each: every pair reads crateBody.crateRef, which destroy() leaves in    *)
(* place, and calls collect; the splice finds the crate in cratesRef at    *)
(* the first pair only.                                                    *)
collect(st, crate, i) ==
  [ammo |-> IF crate.type = "ammo" /\ crate.weaponId # ""
            THEN increaseAmmo(st.ammo, i, crate.weaponId, CrateAmmo) ELSE st.ammo,
   hp |-> IF crate.type = "health"
          THEN [st.hp EXCEPT ![i] = Min(@ + CrateHealth * HealthDen, MaxHealth(i))]
          ELSE st.hp]

RECURSIVE cratePairs(_, _, _)
cratePairs(st, crate, ps) ==
  IF ps = << >> THEN st ELSE cratePairs(collect(st, crate, Head(ps)), crate, Tail(ps))

CollideCratePairs(c, ps) ==
  /\ c \in DOMAIN crates
  /\ \A k \in DOMAIN ps : isAlive(ps[k])
  /\ LET after == cratePairs([ammo |-> ammo, hp |-> health], crates[c], ps)
     IN /\ ammo' = after.ammo
        /\ health' = after.hp
  /\ crates' = RemoveAt(crates, c)
  /\ UNCHANGED <<setupCompleted, unitsPerTeam, units, angle, power, currentTurn, wind,
                 cooldowns, gameOver, selectedWeapon, firing>>
  /\ UNCHANGED <<playersRef, boundVars, arcadeVars, histVars>>
  /\ UNCHANGED <<projectiles, heights, fired>>

(* The players whose bodies one event can pair with a crate: a body is in  *)
(* one pair with the crate at most.                                        *)
PlayerPairs ==
  {ps \in UNION {[1 .. n -> Roster] : n \in 1 .. MaxPairs} :
     \A a, b \in DOMAIN ps : a # b => ps[a] # ps[b]}

NextCrate ==
  \/ \E w \in CrateWeapons : SetSelectedWeapon(w)
  \/ \E d \in [Roster -> EngineDists] : Fire(d)
  \/ \E c \in 1 .. MaxCrates, ps \in PlayerPairs : CollideCratePairs(c, ps)
  \/ \E k \in ProjectileKinds : TickerProjectileLeaves(k)
  \/ \E c \in 1 .. MaxCrates : TickerCrateLeaves(c)

SpecCrate == Init /\ [][NextCrate]_vars

(* ============================ properties =============================== *)
Living(hp) == {i \in DOMAIN hp : hp[i] > 0}

(* The first index after cur, cyclically, whose unit has health left.      *)
NextLiving(cur, hp, n) ==
  LET k == CHOOSE k \in 1 .. n :
             /\ hp[(cur + k) % n] > 0
             /\ \A j \in 1 .. (k - 1) : hp[(cur + j) % n] <= 0
  IN (cur + k) % n

(* C1: every firing action advances the turn exactly once, however many    *)
(* fragments or children it spawns and however many collisions they make:  *)
(* no shot is ever credited with more than one nextTurn.                   *)
OneAdvancePerShot ==
  \A s \in DOMAIN shots : shots[s].advances <= 1

(* C2: nextTurn moves the acting-unit index to the first unit after the    *)
(* current one, cyclically, that is not eliminated, whenever a survivor    *)
(* other than the current unit exists.                                     *)
NextTurnSkipsEliminated ==
  [][(currentTurn' # currentTurn /\ Living(health') \ {currentTurn} # {})
       => currentTurn' = NextLiving(currentTurn, health', Len(units))]_vars

(* C3: while any unit is not eliminated, the current actor index refers to *)
(* a unit that is not eliminated.                                          *)
CurrentActorLiving ==
  (Living(health) # {}) => (currentTurn \in Living(health))

(* C4: a fire request for a weapon whose ammo is tracked and 0, or whose   *)
(* cooldown remaining is nonzero, creates no projectile or effect, leaves  *)
(* the ammo and cooldown maps alone and does not advance the turn.         *)
BlockedFireIsNoOp ==
  [][(Len(shots') > Len(shots))
       => /\ Remaining(cooldowns, mounted.weapon) = 0
          /\ ConsumeOk(ammo[currentTurn], mounted.weapon)]_vars

(* C7: a blast of radius r and damage d deals                              *)
(* round(d*(0.5+0.5*(1-dist/r))) to every living unshielded unit with      *)
(* dist <= r and nothing to a unit with dist > r, on every impact path.    *)
BlastFalloff ==
  lastBlast.path # "none" =>
    \A i \in Living(lastBlast.before) :
      ~ShieldOf(i) =>
        health[i] = lastBlast.before[i]
                      - HealthDen * (IF lastBlast.d[i] <= lastBlast.radius
                                     THEN AreaDealt(lastBlast.damage, lastBlast.radius,
                                                    lastBlast.d[i])
                                     ELSE 0)

(* C8: unit health stays within 0 and the unit's maximum in every state.   *)
HealthInRange ==
  \A i \in Roster : 0 <= health[i] /\ health[i] <= MaxHealth(i)

(* C9: once all units of all but one team are eliminated the turn no       *)
(* longer advances (the match end is signalled instead).                   *)
NoAdvanceAfterMatchEnd ==
  [][Cardinality(LivingTeams) <= 1 => currentTurn' = currentTurn]_vars

(* C10: under every sequence of destroyAt calls each segment height is     *)
(* non-increasing and never negative, and the number of segments (of the   *)
(* fixed width SegWidth) never changes.                                    *)
TerrainMonotonic ==
  [][/\ Len(heights') = Len(heights)
     /\ \A i \in DOMAIN heights : heights'[i] <= heights[i] /\ heights'[i] >= 0]_vars

TerrainWitness ==
  /\ impacts >= 2
  /\ \E i \in DOMAIN heights : heights[i] = 0
  /\ \E j \in DOMAIN heights : 0 < heights[j] /\ heights[j] < InitHeight

(* C11: a cluster weapon impact spawns exactly the configured number of    *)
(* fragments (4 for cluster, 5 for multiple), and the fragments, being     *)
(* blasts, spawn nothing: fragments of a weapon appear only in a step in   *)
(* which a primary projectile of that weapon is resolved, and then exactly *)
(* the configured number of them.                                          *)
ClusterSpawnsConfiguredCount ==
  [][\A id \in WeaponIds :
       LET delta == BagCount(projectiles', Fragment(id)) - BagCount(projectiles, Fragment(id))
       IN delta > 0 =>
            /\ BagCount(projectiles', Primary(id)) < BagCount(projectiles, Primary(id))
            /\ delta = FragmentCount(Find(id).effect)]_vars

(* C12: after any sequence of setAngle and setPower calls, the arrow keys  *)
(* included, the stored angle is within [0, 90] and the stored power       *)
(* within [10, 100].                                                       *)
AimInRange ==
  /\ AngleMin <= angle /\ angle <= AngleMax
  /\ PowerMin <= power /\ power <= PowerMax

AimWitness ==
  /\ lastCall.op = "setPower"
  /\ lastCall.ms < PowerMin
  /\ power = PowerMin
  /\ angle = AngleMax

(* C13: every committed firing action eventually reaches its turn         *)
(* advance, under fair timers and ticking.                                 *)
EveryShotAdvances ==
  \A s \in 1 .. MaxShots :
    (s \in DOMAIN shots) ~> (s \in DOMAIN shots /\ shots[s].advances >= 1)

(* C14: the turn advances only on resolution completion: nextTurn is not  *)
(* executed while a projectile of the firing, or a fragment of it, is      *)
(* still in flight.                                                        *)
AdvanceOnlyAfterResolution ==
  [][currentTurn' # currentTurn => projectiles' = EmptyMap]_vars

(* C15: a beam firing applies the weapon's flat damage, once, to exactly   *)
(* the living units within 20 of the beam line (stated here for the units  *)
(* other than the acting one and without a shield), and to no other unit.  *)
BeamHitsWithinTolerance ==
  lastBlast.path \in {"applyLineDamage", "beam"} =>
    \A i \in DOMAIN lastBlast.before :
      (i # currentTurn /\ ~ShieldOf(i)) =>
        health[i] = lastBlast.before[i]
                      - (IF lastBlast.before[i] > 0 /\ lastBlast.d[i] <= BeamTolerance
                         THEN lastBlast.damage * HealthDen ELSE 0)

(* C16: every teleport relocates the unit at the current turn index, to   *)
(* an abscissa within [margin, width - margin] and an ordinate taken from  *)
(* the terrain height at the destination, so that the unit's lower edge    *)
(* rests on the surface (at most one pixel above it) and is never below.   *)
TeleportPlacesActor ==
  lastTeleport.unit # -1 =>
    /\ lastTeleport.unit = lastTeleport.actor
    /\ TeleportMargin <= lastTeleport.x
    /\ lastTeleport.x <= lastTeleport.width - TeleportMargin
    /\ lastTeleport.y + lastTeleport.half <= WorldHeight - lastTeleport.ground
    /\ lastTeleport.y + lastTeleport.half >= WorldHeight - lastTeleport.ground - 1

(* C17: when the unit that fired has ricochet enabled and its blast-type  *)
(* projectile touches the terrain, the projectile is not destroyed and no  *)
(* impact resolution (damage, turn advance) runs for that contact; when    *)
(* the unit that fired has no ricochet, the contact resolves.              *)
RicochetFollowsFiringUnit ==
  lastContact.owner # -1 =>
    IF RicochetOf(lastContact.owner)
    THEN ~lastContact.removed /\ lastContact.timeouts = 0 /\ ~lastContact.hurt
    ELSE lastContact.removed /\ lastContact.timeouts = 1

(* C18: every tick of a well's interval applies the force to every        *)
(* non-static body of the world but the well; a well in the world is       *)
(* eventually removed; it is removed at most once, and once it is removed  *)
(* its interval is cleared, no further force is applied, and the turn has  *)
(* advanced exactly once for it.                                           *)
WellLifecycle ==
  /\ [](\A s \in DOMAIN shots :
          /\ shots[s].removals <= 1
          /\ shots[s].well <=> (shots[s].kind = "black_hole" /\ shots[s].removals = 0)
          /\ shots[s].well => (shots[s].interval /\ shots[s].advances = 0)
          /\ shots[s].removals = 1 => (~shots[s].interval /\ shots[s].advances = 1))
  /\ [][\A s \in DOMAIN shots :
          shots'[s].pulls # shots[s].pulls =>
            /\ shots[s].well
            /\ shots'[s].pulled =
                 {b \in worldBodies(health, shots) : ~isStatic(b)}]_vars
  /\ \A s \in 1 .. MaxShots :
       (s \in DOMAIN shots /\ shots[s].well)
         ~> (s \in DOMAIN shots /\ shots[s].removals = 1 /\ shots[s].advances = 1)

WellWitness ==
  \E s \in DOMAIN shots :
    /\ shots[s].removals = 1
    /\ shots[s].pulls = MaxPulls
    /\ <<"player", 0>> \in shots[s].pulled
    /\ shots[s].advances = 1

(* C19: every projectile that is created is eventually destroyed: a shot  *)
(* with projectiles in the world is eventually a shot with none.           *)
EveryProjectileDestroyed ==
  \A s \in 1 .. MaxShots :
    (s \in DOMAIN shots /\ shots[s].primary + shots[s].child > 0)
      ~> (s \in DOMAIN shots /\ shots[s].primary + shots[s].child = 0)

(* C20: a destroyAt call with the arguments of the call before it leaves  *)
(* every segment height as the first call left it.                         *)
DestroyAtIdempotent ==
  (lastCall.op = "destroyAt" /\ lastCall.again) => heights = lastCall.before

(* C21: after destroyAt(x, y, radius), a segment farther than radius from  *)
(* x has the height it had, and a segment within radius has lost           *)
(* radius - distance, or stands at 0 when it had less than that.           *)
DestroyAtFrame ==
  lastCall.op = "destroyAt" =>
    \A i \in DOMAIN heights :
      LET dist == Abs(SegCenter(i) - lastCall.x)
          cut == lastCall.radius - dist
      IN /\ dist > lastCall.radius => heights[i] = lastCall.before[i]
         /\ (dist <= lastCall.radius /\ lastCall.before[i] >= cut) =>
              heights[i] = lastCall.before[i] - cut
         /\ (dist <= lastCall.radius /\ lastCall.before[i] < cut) =>
              heights[i] = 0

DestroyAtFrameWitness ==
  /\ lastCall.op = "destroyAt"
  /\ \E i, j, k \in DOMAIN heights :
       /\ Abs(SegCenter(i) - lastCall.x) > lastCall.radius
       /\ heights[i] = lastCall.before[i]
       /\ heights[j] = 0 /\ lastCall.before[j] > 0
       /\ heights[k] > 0 /\ heights[k] < lastCall.before[k]

(* C22: getHeightAt(x) answers the stored height of the segment that      *)
(* holds x, and 0 for an x outside the terrain; it leaves the heights as   *)
(* they were, and a second getHeightAt(x) with no destroyAt in between     *)
(* answers what the first answered.                                        *)
GetHeightAtContract ==
  lastCall.op = "getHeightAt" =>
    /\ heights = lastCall.before
    /\ \A i \in DOMAIN heights :
         ((i - 1) * SegWidth <= lastCall.x /\ lastCall.x < i * SegWidth) =>
           lastCall.result = heights[i]
    /\ (lastCall.x < 0 \/ lastCall.x >= Len(heights) * SegWidth) =>
         lastCall.result = 0
    /\ lastCall.again => lastCall.result = lastCall.prev

GetHeightAtWitness ==
  /\ lastCall.op = "getHeightAt"
  /\ lastCall.again
  /\ lastCall.x = 39
  /\ lastCall.result = heights[1]
  /\ heights[1] < heights[2]

(* C23: a unit whose shield is active loses 0.6 x dealt, a unit without a  *)
(* shield loses exactly dealt, dealt being the damage the impact path      *)
(* hands to takeDamage.  Only the Player class of the keyboard-driven      *)
(* engine has a shield flag, set for the Energy Shield special.            *)
ShieldMitigates ==
  lastBlast.path \in {"applyAreaDamage", "collisionStart"} =>
    \A i \in Living(lastBlast.before) :
      LET dealt == IF lastBlast.d[i] > lastBlast.radius THEN 0
                   ELSE IF lastBlast.path = "applyAreaDamage"
                        THEN AreaDealt(lastBlast.damage, lastBlast.radius, lastBlast.d[i])
                        ELSE lastBlast.damage
          shieldActive == lastBlast.path = "applyAreaDamage" /\ ShieldOf(i)
      IN lastBlast.before[i] - health[i] =
           IF shieldActive THEN ShieldNum * dealt ELSE HealthDen * dealt

ShieldWitness ==
  /\ lastBlast.path = "applyAreaDamage"
  /\ \E i, j \in Living(lastBlast.before) :
       /\ ShieldOf(i) /\ ~ShieldOf(j)
       /\ lastBlast.d[i] = 20 /\ lastBlast.d[j] = 20
       /\ lastBlast.before[i] - health[i] > 0
       /\ HealthDen * (lastBlast.before[i] - health[i])
            = ShieldNum * (lastBlast.before[j] - health[j])

(* C24: no cooldown entry is ever zero or negative; a tick of ms takes ms  *)
(* off every active cooldown and drops the entries that reach zero; and a  *)
(* cooldown that has been ticked and not re-armed by a setCooldown is      *)
(* eventually gone, so that the weapon's cooldown test lets it fire.       *)
TickExpiresCooldowns ==
  /\ [](\A w \in DOMAIN cooldowns : cooldowns[w] > 0)
  /\ [][lastCall'.op = "tickCooldowns" =>
          \A w \in StoreWeapons :
            /\ Remaining(cooldowns', w) = Max(0, Remaining(cooldowns, w) - lastCall'.ms)
            /\ Remaining(cooldowns, w) <= lastCall'.ms => w \notin DOMAIN cooldowns']_vars
  /\ \A w \in StoreWeapons :
       (w \in DOMAIN cooldowns /\ lastCall.op = "tickCooldowns")
         ~> \/ (w \notin DOMAIN cooldowns /\ Remaining(cooldowns, w) = 0)
            \/ (lastCall.op = "setCooldown" /\ lastCall.w = w)

TickWitness ==
  /\ lastCall.op = "tickCooldowns"
  /\ Remaining(lastCall.cdBefore, "rocket") = 400
  /\ Remaining(lastCall.cdBefore, "nuke") = 500
  /\ "rocket" \notin DOMAIN cooldowns
  /\ Remaining(cooldowns, "nuke") = 100

(* C25: with an id outside the catalog selected, a fire request of a       *)
(* living acting unit is resolved as a shot of the first catalog weapon    *)
(* (its projectile is created, its ammo is the one decremented, the turn   *)
(* ends and the firing flag is cleared); and a projectile whose id is      *)
(* outside the catalog resolves its impact with the default radius and     *)
(* damage, spawning nothing.                                               *)
UnknownWeaponDefaults ==
  /\ [][(~Known(selectedWeapon) /\ ~firing /\ isAlive(currentTurn)
           /\ (firing' # firing \/ fired' # fired)) =>
          /\ fired' = fired + 1
          /\ ~firing'
          /\ projectiles' = BagAdd(projectiles, Primary(weapons[1].id), 1)
          /\ ammo' = decreaseAmmo(ammo, currentTurn, weapons[1].id)
          /\ currentTurn' = NextIndex(currentTurn, Len(units))]_vars
  /\ [][(impacts' # impacts /\ lastBlast'.path = "unknownProjectile") =>
          /\ \A i \in DOMAIN health :
               health'[i] = health[i]
                              - (IF lastBlast'.d[i] <= DefaultRadius
                                 THEN DefaultDamage * HealthDen ELSE 0)
          /\ heights' = destroyAt(heights, lastBlast'.x, DefaultRadius)
          /\ projectiles' = projectiles]_vars

UnknownWeaponWitness ==
  /\ selectedWeapon = UnknownId
  /\ fired = 1
  /\ BagCount(projectiles, Primary(weapons[1].id)) = 1
  /\ lastBlast.path = "unknownProjectile"
  /\ \E i \in DOMAIN health : health[i] < lastBlast.before[i]

(* C26: a unit whose health has reached 0 is never mutated again: no later *)
(* impact changes its health (each takeDamage of such a unit also removes  *)
(* its body from the world once more).                                     *)
EliminatedNeverMutated ==
  [][\A i \in DOMAIN health : health[i] <= 0 => health'[i] = health[i]]_vars

(* C27: a collision event that removes a projectile resolves its impact   *)
(* once, however many pairs of the event hold it: each unit loses the      *)
(* weapon's damage at most once and the terrain is carved once.            *)
ImpactResolvedOnce ==
  [][\A k \in ProjectileKinds :
       (impacts' # impacts /\ BagCount(projectiles', k) < BagCount(projectiles, k)) =>
         LET w == ImpactDefinition(k.id)
         IN /\ \A i \in DOMAIN health :
                 health[i] - health'[i] \in {0, w.damage * HealthDen}
            /\ \E x \in ImpactXs : heights' = destroyAt(heights, x, w.radius)]_vars

(* C28: a deferred callback that runs after its projectile was removed or *)
(* after the match ended changes nothing: the MIRV split spawns children   *)
(* only while its shell is in the world, and once the match is over no     *)
(* timer advances the turn, spawns a projectile or applies a well force.   *)
DeferredCallbacksSafe ==
  [][\A s \in DOMAIN shots :
       /\ shots'[s].child > shots[s].child => shots[s].primary > 0
       /\ gameOver =>
            /\ currentTurn' = currentTurn
            /\ shots'[s].child <= shots[s].child
            /\ shots'[s].pulls = shots[s].pulls]_vars

(* C29: the lateral force the ticker applies is proportional to the wind   *)
(* of the turn state as it is now, the value drawn by the latest nextTurn. *)
WindForceIsCurrent == tickerWindForce = wind

AmmoNonNegative ==
  \A i \in DOMAIN ammo : \A w \in DOMAIN ammo[i] : ammo[i][w] \in Nat

(* The first shot was fired with the counter at 0, and a crate has raised  *)
(* another unit's counter above every initial value since.                 *)
AmmoNonNegativeWitness ==
  /\ fired >= 1
  /\ ammo[0]["nuke"] = 0
  /\ \E i \in DOMAIN ammo : ammo[i]["nuke"] > 1

(* C32: the damage each unit receives from one blast does not depend on    *)
(* the order in which the units are visited, nor on another unit having    *)
(* been eliminated earlier in the same blast: visiting the list in any     *)
(* other order deals every unit the same amount and leaves the same        *)
(* healths as the blast that took place.                                   *)
BlastOrderIndependent ==
  [][impacts' # impacts =>
       \A perm \in Orders(playersRef) :
         LET other == areaDamageOver(perm, areaDamageStart(health),
                                     [radius |-> lastBlast'.radius, damage |-> lastBlast'.damage],
                                     lastBlast'.d)
         IN /\ other.dealt = lastBlast'.dealt
            /\ other.hp = health'
            /\ \A i \in DOMAIN health :
                 lastBlast'.dealt[i] =
                   IF (\E k \in DOMAIN playersRef : playersRef[k] = i)
                        /\ lastBlast'.d[i] <= lastBlast'.radius
                   THEN AreaDealt(lastBlast'.damage, lastBlast'.radius, lastBlast'.d[i])
                   ELSE 0]_vars

(* A blast has eliminated a unit and damaged the unit visited right after  *)
(* it.                                                                     *)
BlastOrderWitness ==
  /\ lastBlast.path = "filter"
  /\ lastBlast.before[1] > 0
  /\ health[1] <= 0
  /\ lastBlast.dealt[2] > 0
  /\ health[2] < lastBlast.before[2]

(* C33: cluster recursion terminates: the impact of a fragment spawns no   *)
(* further projectile. A collision step that resolves no primary           *)
(* projectile resolves a fragment, and leaves no more fragments in flight  *)
(* than there were.                                                        *)
FragmentImpactSpawnsNothing ==
  [][(/\ impacts' # impacts
      /\ \A id \in WeaponIds :
           BagCount(projectiles', Primary(id)) = BagCount(projectiles, Primary(id)))
       => \A id \in WeaponIds :
            BagCount(projectiles', Fragment(id)) <= BagCount(projectiles, Fragment(id))]_vars

(* C34: whenever the firing flag is set to true it is eventually reset to  *)
(* false, also when the fire request is made while the unit at the current *)
(* turn index is missing or eliminated.                                    *)
FiringFlagReset == firing ~> ~firing

(* C35: player input acts only on the acting unit: whenever a key press    *)
(* fires a shot, the unit whose body it is fired from is the unit at the    *)
(* current turn index, also after units have been removed from the list.   *)
InputActsOnActor ==
  [][Len(shots') > Len(shots) => currentPlayer = currentTurn]_vars

(* C36: in every reachable state of the store the current turn index is a *)
(* natural number, below the number of units whenever the roster is not    *)
(* empty; nextTurn never produces an invalid index, also when it is called *)
(* before initializeGame, with an empty roster.                            *)
TurnIndexValid ==
  /\ currentTurn \in Nat
  /\ Len(units) > 0 => currentTurn < Len(units)

CrateRewardsOnce ==
  [][Len(crates') < Len(crates) =>
       /\ Cardinality({i \in Roster : ammo'[i] # ammo[i] \/ health'[i] # health[i]}) <= 1
       /\ \A i \in Roster : \A w \in DOMAIN ammo'[i] :
            ammo'[i][w] <= Lookup(ammo[i], w, 0) + CrateAmmo
       /\ \A i \in Roster : health'[i] <= health[i] + CrateHealth * HealthDen]_vars

(* C5: consume(weaponId) on the acting unit's counters: a tracked count    *)
(* n > 0 becomes n - 1 and the call succeeds; a tracked count 0 fails and  *)
(* stays 0; an untracked weapon succeeds and no entry is made or changed.  *)
ConsumeContract ==
  lastCall.op = "consumeAmmo" =>
    LET b == lastCall.ammoBefore
        a == ammo[currentTurn]
        w == lastCall.w
    IN /\ (w \in DOMAIN b /\ b[w] > 0) =>
            (lastCall.ok /\ a = [b EXCEPT ![w] = b[w] - 1])
       /\ (w \in DOMAIN b /\ b[w] = 0) => (~lastCall.ok /\ a = b)
       /\ (w \notin DOMAIN b) => (lastCall.ok /\ a = b)

ConsumeWitness ==
  /\ lastCall.op = "consumeAmmo"
  /\ lastCall.w \in DOMAIN lastCall.ammoBefore
  /\ lastCall.ammoBefore[lastCall.w] = 1
  /\ ammo[currentTurn][lastCall.w] = 0

(* C6: with no tick in between, the remaining cooldown of a weapon is the  *)
(* maximum of what remained at the last tick and every value passed to     *)
(* setCooldown since; a call never shortens a running cooldown.            *)
CooldownNeverShortens ==
  /\ \A w \in StoreWeapons : Remaining(cooldowns, w) = cdTrace[w]
  /\ lastCall.op = "setCooldown" =>
       Remaining(cooldowns, lastCall.w)
         = Max(Remaining(lastCall.cdBefore, lastCall.w), lastCall.ms)

CooldownWitness ==
  /\ lastCall.op = "setCooldown"
  /\ lastCall.ms = 200
  /\ Remaining(lastCall.cdBefore, lastCall.w) = 500
  /\ Remaining(cooldowns, lastCall.w) = 500

====
